---- MODULE Spec2Model ----
(***************************************************************************)
(* Model of src/src/webhook.ts: the RazorWebhook dispatcher (constructor,  *)
(* handler accessor, execute) and the RazorWebhookHandler registry (the    *)
(* _handler table, its 23 setters, the _mockAction default).               *)
(*                                                                         *)
(* Objects live in heaps and are named by references, as in the program:   *)
(*   heap      the _handler tables of the RazorWebhookHandler instances    *)
(*   promises  the promises made by callbacks and by execute's default     *)
(*   inst      the host's variables holding RazorWebhook instances         *)
(* A callback is named by a string; what a user callback does is an input. *)
(***************************************************************************)
EXTENDS Integers, Sequences, FiniteSets, TLC

VARIABLES
  inst,        \* host variable -> NoInstance or [payload, handler (a heap reference)]
  heap,        \* sequence of _handler tables, one per RazorWebhookHandler constructed
  promises,    \* sequence of promise objects [by, registry, slot, state, value]
  dispatches,  \* one record per execute() call, in call order
  thrown,      \* what the most recent call threw synchronously (NoError if nothing)
  lastSet,     \* history: host variable -> setter -> the callback last passed to it
  nSet         \* number of setter calls made so far

vars == <<inst, heap, promises, dispatches, thrown, lastSet, nSet>>

(*************************** bounds of the model **************************)
MaxSetterCalls == 2
MaxExecutes == 2

(******************************* the types ********************************)
\* type WebHookEvent, webhook.ts 11-34
WebHookEvent ==
  { "order.paid",
    "payment.authorized", "payment.captured", "payment.failed",
    "refund.created",
    "payment.dispute.created", "payment.dispute.won",
    "payment.dispute.lost", "payment.dispute.closed",
    "invoice.partially_paid", "invoice.paid", "invoice.expired",
    "subscription.activated", "subscription.charged", "subscription.completed",
    "subscription.updated", "subscription.pending", "subscription.halted",
    "subscription.cancelled",
    "settlement.processed",
    "virtual_account.created", "virtual_account.credited", "virtual_account.closed" }

\* Event strings outside WebHookEvent that a deserialised body may carry.
\* "dispute.created" is the path of a table slot but not an event name.
UnknownEvents == { "unknown.event", "dispute.created" }

\* interface IActionHandler, webhook.ts 36-76: the slots, written category.sub
Slots ==
  { "order.paid",
    "payment.authorized", "payment.captured", "payment.failed",
    "refund.created",
    "dispute.created", "dispute.won", "dispute.lost", "dispute.closed",
    "invoice.partially_paid", "invoice.paid", "invoice.expired",
    "subscription.activated", "subscription.charged", "subscription.completed",
    "subscription.updated", "subscription.pending", "subscription.halted",
    "subscription.cancelled",
    "settlement.processed",
    "virtual_account.created", "virtual_account.credited", "virtual_account.closed" }

\* The set accessors of RazorWebhookHandler, webhook.ts 249-464
Setters ==
  { "orderPaid", "refundCreated",
    "paymentAuthorized", "paymentCaptured", "paymentFailed",
    "disputeCreated", "disputeWon", "disputeLost", "disputeClosed",
    "invoicePartiallyPaid", "invoicePaid", "invoiceExpired",
    "subscriptionActivated", "subscriptionCharged", "subscriptionCompleted",
    "subscriptionUpdated", "subscriptionPending", "subscriptionHalted",
    "subscriptionCancelled",
    "settlementProcessed",
    "virtualAccountCreated", "virtualAccountCredited", "virtualAccountClosed" }

\* function _mockAction, webhook.ts 467-469
mockAction == "_mockAction"

\* Callbacks the host writes (type WebHookFunction, webhook.ts 1)
UserCallbacks == { "f", "g" }

(******************************* the values *******************************)
Val(kind, text) == [kind |-> kind, text |-> text]

NoValue == Val("none", <<>>)

\* true, the value of Promise.resolve(true), webhook.ts 468
TrueValue == Val("boolean", <<"true">>)

\* What user callback fn resolves to, and what it rejects with
ResultOf(fn) == Val("value", <<fn>>)
ErrorOf(fn) == Val("error", <<fn>>)

\* JavaScript's ToBoolean on the values of this model
Truthy(v) == v.kind \in {"value", "error", "object"} \/ v = TrueValue

\* The payloads: IRazorWebHookPayload objects (webhook.ts 77-88), null, undefined
Payload(e) == [type |-> "object", entity |-> "event", account_id |-> "acc_1", event |-> e]
Null == [type |-> "null", entity |-> "", account_id |-> "", event |-> ""]
Undefined == [type |-> "undefined", entity |-> "", account_id |-> "", event |-> ""]

PayloadObjects == { Payload(e) : e \in WebHookEvent \cup UnknownEvents }
PayloadInputs == PayloadObjects \cup { Null, Undefined }

NoInstance == [payload |-> Undefined, handler |-> 0]

NoError == Val("none", <<>>)

(************************** RazorWebhookHandler ***************************)
\* The object literal initialising _handler, webhook.ts 194-234
HandlerLiteral == [s \in Slots |-> mockAction]

\* The slot each setter assigns, webhook.ts 249-464
SetterTable(s) ==
  CASE s = "orderPaid" -> "order.paid"
    [] s = "refundCreated" -> "refund.created"
    [] s = "paymentAuthorized" -> "payment.authorized"
    [] s = "paymentCaptured" -> "payment.captured"
    [] s = "paymentFailed" -> "payment.failed"
    [] s = "disputeCreated" -> "dispute.created"
    [] s = "disputeWon" -> "dispute.won"
    [] s = "disputeLost" -> "dispute.lost"
    [] s = "disputeClosed" -> "dispute.closed"
    [] s = "invoicePartiallyPaid" -> "invoice.partially_paid"
    [] s = "invoicePaid" -> "invoice.paid"
    [] s = "invoiceExpired" -> "invoice.expired"
    [] s = "subscriptionActivated" -> "subscription.activated"
    [] s = "subscriptionCharged" -> "subscription.charged"
    [] s = "subscriptionCompleted" -> "subscription.completed"
    [] s = "subscriptionUpdated" -> "subscription.updated"
    [] s = "subscriptionPending" -> "subscription.pending"
    [] s = "subscriptionHalted" -> "subscription.halted"
    [] s = "subscriptionCancelled" -> "subscription.cancelled"
    [] s = "settlementProcessed" -> "settlement.processed"
    [] s = "virtualAccountCreated" -> "virtual_account.created"
    [] s = "virtualAccountCredited" -> "virtual_account.credited"
    [] s = "virtualAccountClosed" -> "virtual_account.closed"

\* A copy-and-paste slip: disputeLost assigns the slot of disputeWon
SetterSlotSlip(s) == IF s = "disputeLost" THEN "dispute.won" ELSE SetterTable(s)

SetterSlot(s) == SetterTable(s)

\* The event each setter is documented to handle: the line "SET Event Handle For:"
\* of the comment above each setter, webhook.ts 245-461
SetterDoc(s) ==
  CASE s = "orderPaid" -> "order.paid"
    [] s = "refundCreated" -> "refund.created"
    [] s = "paymentAuthorized" -> "payment.authorized"
    [] s = "paymentCaptured" -> "payment.captured"
    [] s = "paymentFailed" -> "payment.failed"
    [] s = "disputeCreated" -> "payment.dispute.created"
    [] s = "disputeWon" -> "payment.dispute.won"
    [] s = "disputeLost" -> "payment.dispute.lost"
    [] s = "disputeClosed" -> "payment.dispute.closed"
    [] s = "invoicePartiallyPaid" -> "invoice.partially_paid"
    [] s = "invoicePaid" -> "invoice.paid"
    [] s = "invoiceExpired" -> "invoice.expired"
    [] s = "subscriptionActivated" -> "subscription.activated"
    [] s = "subscriptionCharged" -> "subscription.charged"
    [] s = "subscriptionCompleted" -> "subscription.completed"
    [] s = "subscriptionUpdated" -> "subscription.updated"
    [] s = "subscriptionPending" -> "subscription.pending"
    [] s = "subscriptionHalted" -> "subscription.halted"
    [] s = "subscriptionCancelled" -> "subscription.cancelled"
    [] s = "settlementProcessed" -> "settlement.processed"
    [] s = "virtualAccountCreated" -> "virtual_account.created"
    [] s = "virtualAccountCredited" -> "virtual_account.credited"
    [] s = "virtualAccountClosed" -> "virtual_account.closed"

\* The setters documented for each event
SettersByEvent == [e \in WebHookEvent |-> { s \in Setters : SetterDoc(s) = e }]

\* The setters documented for event e (none for a string that is no known event)
SetterOf(e) == IF e \in WebHookEvent THEN SettersByEvent[e] ELSE {}

\* A setter that rebuilds the table from the defaults before assigning
SetterAssignFresh(h, s, fn) == [HandlerLiteral EXCEPT ![SetterSlot(s)] = fn]

\* A setter that keeps a callback already registered (first registration wins)
SetterAssignOnce(h, s, fn) ==
  IF h[SetterSlot(s)] = mockAction THEN [h EXCEPT ![SetterSlot(s)] = fn] ELSE h

\* The body of a setter: this._handler.<category>.<sub> = fn
SetterAssign(h, s, fn) == [h EXCEPT ![SetterSlot(s)] = fn]

\* set <name>(fn), webhook.ts 249-464, called on the registry of host variable x
Setter(x, s, fn) ==
  /\ inst[x] # NoInstance
  /\ nSet < MaxSetterCalls
  /\ heap' = [heap EXCEPT ![inst[x].handler] = SetterAssign(@, s, fn)]
  /\ lastSet' = [lastSet EXCEPT ![x][s] = fn]
  /\ nSet' = nSet + 1
  /\ thrown' = NoError
  /\ UNCHANGED <<inst, promises, dispatches>>

\* A default that resolves to undefined instead of true
MockActionUndefined(fn, ref, slot) ==
  [by |-> fn, registry |-> ref, slot |-> slot,
   state |-> IF fn = mockAction THEN "resolved" ELSE "pending",
   value |-> IF fn = mockAction THEN Val("undefined", <<>>) ELSE NoValue]

\* What a callback returns when invoked: _mockAction returns Promise.resolve(true)
\* (webhook.ts 467-469); a user callback returns a promise of its own, pending
\* until the callback's work is done.
Invoke(fn, ref, slot) ==
  [by |-> fn, registry |-> ref, slot |-> slot,
   state |-> IF fn = mockAction THEN "resolved" ELSE "pending",
   value |-> IF fn = mockAction THEN TrueValue ELSE NoValue]

(****************************** RazorWebhook ******************************)
\* A test for undefined alone, which lets null through
PayloadUndefinedOnly(payload) == payload.type = "undefined"

\* !payload, webhook.ts 104: of the values the parameter can hold, null and
\* undefined are falsy and every object is truthy
PayloadMissing(payload) == payload.type \in {"null", "undefined"}

\* new Error("payload is mandatory"), webhook.ts 105
MandatoryError == Val("Error", <<"payload is mandatory">>)

\* One table kept at module level and shared by every registry
SharedRegistry(hp) == 1

\* new RazorWebhookHandler(), webhook.ts 108: a new object, hence a new reference
NewRegistry(hp) == Len(hp) + 1

\* constructor(payload), webhook.ts 103-109, its result assigned to host variable x
Constructor(x, payload) ==
  /\ inst[x] = NoInstance
  /\ IF PayloadMissing(payload)
     THEN /\ thrown' = MandatoryError
          /\ UNCHANGED <<inst, heap>>
     ELSE LET ref == NewRegistry(heap) IN
          /\ thrown' = NoError
          /\ heap' = IF ref \in DOMAIN heap THEN heap ELSE Append(heap, HandlerLiteral)
          /\ inst' = [inst EXCEPT ![x] = [payload |-> payload, handler |-> ref]]
  /\ UNCHANGED <<promises, dispatches, lastSet, nSet>>

\* The switch of execute, webhook.ts 130-189: the slots whose callbacks the matched
\* case invokes, in order; the empty sequence for the default case.
SwitchTable(e) ==
  CASE e = "order.paid" -> <<"order.paid">>
    [] e = "payment.authorized" -> <<"payment.authorized">>
    [] e = "payment.captured" -> <<"payment.captured">>
    [] e = "payment.failed" -> <<"payment.failed">>
    [] e = "refund.created" -> <<"refund.created">>
    [] e = "payment.dispute.created" -> <<"dispute.created">>
    [] e = "payment.dispute.won" -> <<"dispute.won">>
    [] e = "payment.dispute.lost" -> <<"dispute.lost">>
    [] e = "payment.dispute.closed" -> <<"dispute.closed">>
    [] e = "invoice.partially_paid" -> <<"invoice.partially_paid">>
    [] e = "invoice.paid" -> <<"invoice.paid">>
    [] e = "invoice.expired" -> <<"invoice.expired">>
    [] e = "subscription.activated" -> <<"subscription.activated">>
    [] e = "subscription.charged" -> <<"subscription.charged">>
    [] e = "subscription.completed" -> <<"subscription.completed">>
    [] e = "subscription.updated" -> <<"subscription.updated">>
    [] e = "subscription.pending" -> <<"subscription.pending">>
    [] e = "subscription.halted" -> <<"subscription.halted">>
    [] e = "subscription.cancelled" -> <<"subscription.cancelled">>
    [] e = "settlement.processed" -> <<"settlement.processed">>
    [] e = "virtual_account.created" -> <<"virtual_account.created">>
    [] e = "virtual_account.credited" -> <<"virtual_account.credited">>
    [] e = "virtual_account.closed" -> <<"virtual_account.closed">>
    [] OTHER -> <<>>

\* A copy-and-paste slip: the case of invoice.paid calls handler.order.paid
ExecuteCaseSlip(e) == IF e = "invoice.paid" THEN <<"order.paid">> ELSE SwitchTable(e)

\* A case too many: the slot path dispute.created is accepted as an event name
ExecuteCaseAlias(e) == IF e = "dispute.created" THEN <<"dispute.created">> ELSE SwitchTable(e)

ExecuteCase(e) == SwitchTable(e)

\* The rejection reason of the default case, webhook.ts 186-188: a string literal
UnsupportedReason(e) ==
  Val("string", <<"Payload event is currently isn't supported by RazorWebhook class.">>)

\* A case that calls the callback without returning its promise
ExecuteReturnNothing(p) == 0

\* return handler.<category>.<sub>(pl): execute returns the callback's own promise
ExecuteReturn(p) == p

\* execute(), webhook.ts 127-190, called on the instance in host variable x
Execute(x) ==
  /\ inst[x] # NoInstance
  /\ Len(dispatches) < MaxExecutes
  /\ LET pl == inst[x].payload
         ref == inst[x].handler
         handler == heap[ref]
         hit == ExecuteCase(pl.event)
         n == Len(promises)
         calls == [i \in 1..Len(hit) |->
                     [slot |-> hit[i], fn |-> handler[hit[i]], arg |-> pl,
                      promise |-> n + i]]
     IN  IF hit # <<>>
         THEN /\ promises' = promises \o
                   [i \in 1..Len(hit) |-> Invoke(handler[hit[i]], ref, hit[i])]
              /\ dispatches' = Append(dispatches,
                   [x |-> x, event |-> pl.event, calls |-> calls,
                    returned |-> ExecuteReturn(n + Len(hit))])
         ELSE /\ promises' = Append(promises,
                   [by |-> "RazorWebhook", registry |-> ref, slot |-> "default",
                    state |-> "rejected", value |-> UnsupportedReason(pl.event)])
              /\ dispatches' = Append(dispatches,
                   [x |-> x, event |-> pl.event, calls |-> <<>>, returned |-> n + 1])
  /\ thrown' = NoError
  /\ UNCHANGED <<inst, heap, lastSet, nSet>>

\* A lookup deferred until the result is produced
LateCallee(pr, hp) == hp[pr.registry][pr.slot]

\* The callee of handler.<category>.<sub>(pl) is read from the table when execute
\* runs (webhook.ts 129-183): the promise belongs to the callback invoked then.
BoundCallee(pr, hp) == pr.by

\* The work of a user callback ends: its promise is resolved or rejected
Settle(p, ok) ==
  /\ promises[p].state = "pending"
  /\ LET who == BoundCallee(promises[p], heap) IN
     promises' = [promises EXCEPT
       ![p].state = IF ok THEN "resolved" ELSE "rejected",
       ![p].value = IF who = mockAction THEN TrueValue
                    ELSE IF ok THEN ResultOf(who) ELSE ErrorOf(who)]
  /\ UNCHANGED <<inst, heap, dispatches, thrown, lastSet, nSet>>

(**************************** specifications ******************************)
\* The host's variables that may hold a dispatcher
Hosts == {"A", "B"}

Init ==
  /\ inst = [x \in Hosts |-> NoInstance]
  /\ heap = <<>>
  /\ promises = <<>>
  /\ dispatches = <<>>
  /\ thrown = NoError
  /\ lastSet = [x \in Hosts |-> [s \in Setters |-> mockAction]]
  /\ nSet = 0

\* Setters that stand for "the other slots" where not all 23 are called
OtherSetters == { "orderPaid", "disputeCreated" }

\* Spec: one dispatcher, every payload; the setters called are the one documented
\* for the payload's event and OtherSetters.
Next ==
  \/ \E p \in PayloadInputs : Constructor("A", p)
  \/ \E s \in SetterOf(inst["A"].payload.event) \cup OtherSetters, fn \in UserCallbacks :
       Setter("A", s, fn)
  \/ Execute("A")
  \/ \E p \in DOMAIN promises, ok \in BOOLEAN : Settle(p, ok)

Spec == Init /\ [][Next]_vars

\* SpecRegistry: one dispatcher, a few payloads, every setter.
RegistryPayloads == { Payload("refund.created"), Payload("unknown.event"), Null }

NextRegistry ==
  \/ \E p \in RegistryPayloads : Constructor("A", p)
  \/ \E s \in Setters, fn \in UserCallbacks : Setter("A", s, fn)
  \/ Execute("A")
  \/ \E p \in DOMAIN promises, ok \in BOOLEAN : Settle(p, ok)

SpecRegistry == Init /\ [][NextRegistry]_vars

\* SpecIso: two dispatchers, a few payloads; the setters called on either registry
\* are those documented for the two payloads' events and OtherSetters.
IsoPayloads == { Payload("refund.created"), Payload("payment.dispute.won"), Undefined }

NextIso ==
  \/ \E x \in Hosts, p \in IsoPayloads : Constructor(x, p)
  \/ \E x \in Hosts, fn \in UserCallbacks,
        s \in SetterOf(inst["A"].payload.event) \cup SetterOf(inst["B"].payload.event)
              \cup OtherSetters :
       Setter(x, s, fn)
  \/ \E x \in Hosts : Execute(x)
  \/ \E p \in DOMAIN promises, ok \in BOOLEAN : Settle(p, ok)

SpecIso == Init /\ [][NextIso]_vars

(******************************* the claims *******************************)
\* The slot each setter assigns, and the slot execute reads for the event the
\* setter is documented for
SlotAssignedBy == [s \in Setters |-> SetterSlot(s)]
SlotReadFor == [s \in Setters |-> ExecuteCase(SetterDoc(s))]

\* The slot of event e: the one assigned by the setter documented for e
SlotsFor(e) == { SlotAssignedBy[s] : s \in SetterOf(e) }

\* The step is a call of execute() on the dispatcher in host variable x
ExecuteStep(x) ==
  /\ Len(dispatches') = Len(dispatches) + 1
  /\ dispatches'[Len(dispatches')].x = x

\* The lifecycle state of the dispatcher in host variable x
State(x) ==
  IF inst[x] = NoInstance THEN "none"
  ELSE IF \E i \in DOMAIN dispatches : dispatches[i].x = x THEN "executed"
  ELSE "constructed"

\* The reason names event e
Mentions(v, e) == \E i \in DOMAIN v.text : v.text[i] = e

\* C1: one execute() of a payload with a known event E invokes exactly one callback,
\* exactly once: the callback stored at that moment in the slot of E (the slot the
\* setter documented for E assigns); its argument is the payload the constructor
\* was given, which no operation changes.
C1_DispatchToMappedSlot ==
  [][\A x \in Hosts :
       /\ (inst[x] # NoInstance => inst'[x] = inst[x])
       /\ (ExecuteStep(x) /\ inst[x].payload.event \in WebHookEvent) =>
            LET d == dispatches'[Len(dispatches')]
                table == heap[inst[x].handler]
            IN  /\ Len(d.calls) = 1
                /\ Len(promises') = Len(promises) + 1
                /\ SlotsFor(d.event) = { d.calls[1].slot }
                /\ d.calls[1].fn = table[d.calls[1].slot]
                /\ d.calls[1].arg = inst[x].payload
                /\ d.event = inst[x].payload.event]_vars

\* C1 witness: a known event was dispatched to a user callback while another slot of
\* the same registry held a user callback too.
C1_Witness ==
  \E i \in DOMAIN dispatches :
    LET d == dispatches[i] IN
    /\ d.event \in WebHookEvent
    /\ Len(d.calls) = 1
    /\ d.calls[1].fn \in UserCallbacks
    /\ \E t \in Slots \ { d.calls[1].slot } :
         heap[inst[d.x].handler][t] \in UserCallbacks

\* C2 as claimed: for an event outside the known set execute() invokes no callback
\* and returns a rejection whose value is an error with a message naming the event.
C2_RejectsWithErrorNamingEvent ==
  \A i \in DOMAIN dispatches :
    LET d == dispatches[i] IN
    d.event \notin WebHookEvent =>
      /\ d.calls = <<>>
      /\ promises[d.returned].state = "rejected"
      /\ promises[d.returned].value.kind = "Error"
      /\ Mentions(promises[d.returned].value, d.event)

\* C2 amended: for an event outside the known set execute() invokes no callback,
\* throws nothing, and returns a promise rejected with a fixed string (not an Error
\* object) saying the payload event is not supported; the string is the same for
\* every such event and does not name it.
C2_RejectsWithFixedString ==
  [][\A x \in Hosts :
       (ExecuteStep(x) /\ inst[x].payload.event \notin WebHookEvent) =>
         LET d == dispatches'[Len(dispatches')] IN
         /\ thrown' = NoError
         /\ d.calls = <<>>
         /\ Len(promises') = Len(promises) + 1
         /\ d.returned = Len(promises')
         /\ promises'[d.returned].state = "rejected"
         /\ promises'[d.returned].value =
              Val("string",
                  <<"Payload event is currently isn't supported by RazorWebhook class.">>)
         /\ ~Mentions(promises'[d.returned].value, d.event)]_vars

\* C2 witness: an unknown event was dispatched and its promise is rejected.
C2_Witness ==
  \E i \in DOMAIN dispatches :
    /\ dispatches[i].event \in UnknownEvents
    /\ promises[dispatches[i].returned].state = "rejected"

C4_Default ==
  nSet = 0 =>
    \A i \in DOMAIN dispatches :
      LET d == dispatches[i] IN
      d.event \in WebHookEvent =>
        /\ promises[d.returned].state = "resolved"
        /\ promises[d.returned].value = TrueValue
        /\ Truthy(promises[d.returned].value)
        /\ promises[d.returned].by = mockAction

C4_DefaultResolvesTrue ==
  /\ C4_Default
  /\ [][/\ (promises' # promises \/ dispatches' # dispatches \/ nSet' # nSet) => C4_Default'
        /\ \A x \in Hosts : ExecuteStep(x) => heap' = heap /\ inst' = inst]_vars

\* C4 witness: subscription.halted was dispatched with no setter ever called.
C4_Witness ==
  /\ nSet = 0
  /\ \E i \in DOMAIN dispatches :
       /\ dispatches[i].event = "subscription.halted"
       /\ promises[dispatches[i].returned].state = "resolved"

\* C5: each execute() of an X-typed payload invokes the callback most recently
\* passed to the setter of X on that registry before the call (the default if none).
C5_LastRegistrationWins ==
  [][\A x \in Hosts :
       (ExecuteStep(x) /\ inst[x].payload.event \in WebHookEvent) =>
         LET d == dispatches'[Len(dispatches')] IN
         /\ Len(d.calls) = 1
         /\ \A s \in SetterOf(d.event) : d.calls[1].fn = lastSet[x][s]]_vars

\* C5 witness: two dispatches of one dispatcher, the setter called between them,
\* invoked two different user callbacks.
C5_Witness ==
  /\ Len(dispatches) >= 2
  /\ dispatches[1].x = dispatches[2].x
  /\ dispatches[1].event = "refund.created"
  /\ dispatches[1].calls[1].fn \in UserCallbacks
  /\ dispatches[2].calls[1].fn \in UserCallbacks
  /\ dispatches[1].calls[1].fn # dispatches[2].calls[1].fn

\* The outcome of what execute() returned
Outcome(ref) ==
  IF ref \in DOMAIN promises
  THEN [state |-> promises[ref].state, value |-> promises[ref].value]
  ELSE [state |-> "not a promise", value |-> NoValue]

\* C6: what execute() returns for a known event is the invoked callback's own
\* promise: pending while it is pending, resolved with its value, rejected with its
\* error.
C6_PassThrough ==
  \A i \in DOMAIN dispatches :
    LET d == dispatches[i] IN
    d.event \in WebHookEvent =>
      LET c == d.calls[1] IN
      /\ d.returned = c.promise
      /\ Outcome(d.returned) = Outcome(c.promise)
      /\ Outcome(d.returned).state \in {"pending", "resolved", "rejected"}
      /\ (promises[c.promise].state = "rejected" =>
            Outcome(d.returned) = [state |-> "rejected", value |-> ErrorOf(c.fn)])
      /\ (promises[c.promise].state = "resolved" /\ c.fn # mockAction =>
            Outcome(d.returned) = [state |-> "resolved", value |-> ResultOf(c.fn)])

\* C6 witness: one dispatch ended rejected with its callback's error.
C6_Witness ==
  \E i \in DOMAIN dispatches :
    /\ dispatches[i].calls # <<>>
    /\ dispatches[i].calls[1].fn \in UserCallbacks
    /\ Outcome(dispatches[i].returned) =
         [state |-> "rejected", value |-> ErrorOf(dispatches[i].calls[1].fn)]

\* C8: a dispatch that invoked callback f keeps f's promise whatever setter is
\* called afterwards: a setter call invokes nothing and touches no promise, and the
\* promise settles with f's result.
C8_InFlight ==
  \A i \in DOMAIN dispatches :
    \A k \in DOMAIN dispatches[i].calls :
      LET c == dispatches[i].calls[k]
          pr == promises[c.promise]
      IN  /\ Len(dispatches[i].calls) = 1
          /\ pr.by = c.fn
          /\ pr.state = "resolved" =>
               pr.value = IF c.fn = mockAction THEN TrueValue ELSE ResultOf(c.fn)
          /\ pr.state = "rejected" => pr.value = ErrorOf(c.fn)

C8_ReplacementSparesInFlight ==
  /\ C8_InFlight
  /\ [][/\ (promises' # promises \/ dispatches' # dispatches) => C8_InFlight'
        /\ nSet' # nSet => dispatches' = dispatches /\ promises' = promises]_vars

\* C8 witness: f was invoked, its slot was then given another callback, and the
\* dispatch completed with f's value.
C8_Witness ==
  \E i \in DOMAIN dispatches :
    /\ dispatches[i].calls # <<>>
    /\ LET c == dispatches[i].calls[1] IN
       /\ c.fn = "f"
       /\ heap[inst[dispatches[i].x].handler][c.slot] = "g"
       /\ promises[c.promise].state = "resolved"
       /\ promises[c.promise].value = ResultOf("f")

\* Events, slots and setters correspond one to one: execute maps each known event
\* to one slot of its own and no other string to any; each setter assigns one slot
\* of its own, the one execute reads for the event the setter is documented for.
TablesCorrespond ==
  /\ \A e \in WebHookEvent : Len(ExecuteCase(e)) = 1 /\ ExecuteCase(e)[1] \in Slots
  /\ \A e1, e2 \in WebHookEvent : ExecuteCase(e1) = ExecuteCase(e2) => e1 = e2
  /\ \A u \in Slots : \E e \in WebHookEvent : ExecuteCase(e) = <<u>>
  /\ \A e \in UnknownEvents : ExecuteCase(e) = <<>>
  /\ \A s \in Setters :
       /\ SlotAssignedBy[s] \in Slots
       /\ SetterDoc(s) \in WebHookEvent
       /\ SlotReadFor[s] = <<SlotAssignedBy[s]>>
  /\ \A s1, s2 \in Setters : SlotAssignedBy[s1] = SlotAssignedBy[s2] => s1 = s2
  /\ \A u \in Slots : \E s \in Setters : SlotAssignedBy[s] = u

\* ... and every table has exactly the slots of IActionHandler, each holding what
\* its setter was last given.
Correspondence ==
  /\ TablesCorrespond
  /\ \A r \in DOMAIN heap : DOMAIN heap[r] = Slots
  /\ \A x \in Hosts : inst[x] # NoInstance =>
       \A s \in Setters : heap[inst[x].handler][SlotAssignedBy[s]] = lastSet[x][s]

\* C7 as claimed: events, slots and setters correspond one to one, and there are
\* exactly 22 of each.
C7_TwentyTwoOfEach ==
  /\ Correspondence
  /\ Cardinality(WebHookEvent) = 22
  /\ Cardinality(Slots) = 22
  /\ Cardinality(Setters) = 22

\* C7 amended: events, slots and setters correspond one to one, and there are
\* exactly 23 of each.
C7_TwentyThreeOfEach ==
  /\ Correspondence
  /\ Cardinality(WebHookEvent) = 23
  /\ Cardinality(Slots) = 23
  /\ Cardinality(Setters) = 23

\* C7 witness: setters have assigned two different slots of one table.
C7_Witness ==
  /\ inst["A"] # NoInstance
  /\ heap[inst["A"].handler]["dispute.lost"] = "f"
  /\ heap[inst["A"].handler]["dispute.won"] = "g"

\* C9: the setter of event X called with fn makes the slot of X hold fn and leaves
\* every other slot, every other table and every payload as they were; so each slot
\* holds the default or what its own setter was last given. (A setter call is a
\* step that raises nSet; lastSet tells which setter it was and what it was given.)
C9_SlotsHoldLastGiven ==
  \A x \in Hosts : inst[x] # NoInstance =>
    \A s \in Setters :
      /\ lastSet[x][s] \in UserCallbacks \cup {mockAction}
      /\ heap[inst[x].handler][SlotReadFor[s][1]] = lastSet[x][s]

C9_SetterFrame ==
  /\ C9_SlotsHoldLastGiven
  /\ [][/\ (heap' # heap \/ lastSet' # lastSet \/ inst' # inst) => C9_SlotsHoldLastGiven'
        /\ nSet' # nSet =>
             /\ inst' = inst
             /\ Len(heap') = Len(heap)
             /\ lastSet' = lastSet => heap' = heap
             /\ \A x \in Hosts, s \in Setters :
                  (lastSet'[x][s] # lastSet[x][s] /\ inst[x] # NoInstance) =>
                    LET r == inst[x].handler
                        slot == SlotReadFor[s][1]
                    IN  /\ heap'[r][slot] = lastSet'[x][s]
                        /\ \A u \in Slots \ {slot} : heap'[r][u] = heap[r][u]]_vars

\* C9 witness: after two setter calls two slots hold user callbacks and the
\* payload is the one constructed with.
C9_Witness ==
  /\ nSet = 2
  /\ inst["A"] # NoInstance
  /\ inst["A"].payload = Payload("refund.created")
  /\ heap[inst["A"].handler]["invoice.paid"] = "f"
  /\ heap[inst["A"].handler]["refund.created"] = "g"

\* C10: every construction makes a registry of its own: two dispatchers never hold
\* the same table, a setter call leaves the table of every dispatcher it was not
\* called on as it was, and execute() on a dispatcher invokes what was last
\* registered on its own registry.
C10_OwnTables ==
  \A x, y \in Hosts :
    (x # y /\ inst[x] # NoInstance /\ inst[y] # NoInstance) =>
      /\ inst[x].handler # inst[y].handler
      /\ \A s \in Setters : heap[inst[y].handler][SlotAssignedBy[s]] = lastSet[y][s]

C10_RegistryIsolation ==
  /\ C10_OwnTables
  /\ [][/\ (heap' # heap \/ lastSet' # lastSet \/ inst' # inst) => C10_OwnTables'
        /\ nSet' # nSet =>
             \A y \in Hosts :
               (lastSet'[y] = lastSet[y] /\ inst[y] # NoInstance) =>
                 heap'[inst[y].handler] = heap[inst[y].handler]
        /\ \A y \in Hosts :
             (ExecuteStep(y) /\ inst[y].payload.event \in WebHookEvent) =>
               \A s \in SetterOf(inst[y].payload.event) :
                 dispatches'[Len(dispatches')].calls[1].fn = lastSet[y][s]]_vars

\* C10 witness: A's slot of refund.created was given a user callback, and B then
\* dispatched refund.created to the default.
C10_Witness ==
  /\ inst["A"] # NoInstance
  /\ inst["B"] # NoInstance
  /\ heap[inst["A"].handler]["refund.created"] \in UserCallbacks
  /\ \E i \in DOMAIN dispatches :
       /\ dispatches[i].x = "B"
       /\ dispatches[i].event = "refund.created"
       /\ dispatches[i].calls[1].fn = mockAction
       /\ \E j \in DOMAIN dispatches : j < i /\ dispatches[j].x = "A"
            /\ dispatches[j].calls[1].fn \in UserCallbacks

====
